---------------------------- MODULE Spec2Model ----------------------------
(***************************************************************************)
(* HTTP/3 frame parser and frame encoders of internal/http3/frames.go.     *)
(*                                                                         *)
(* A stream is a finite sequence of bytes (0..255) written by a peer and   *)
(* read by frameParser.ParseNext through p.r.  Errors are modelled by the  *)
(* string that identifies the Go error value: "nil" for no error, "EOF"    *)
(* for io.EOF, "ErrUnexpectedEOF" for io.ErrUnexpectedEOF, "hijacked" for  *)
(* errHijacked, and the message prefix for errors built with fmt.Errorf or *)
(* errors.New.                                                             *)
(***************************************************************************)
EXTENDS Integers, Sequences, FiniteSets, TLC

(***************************************************************************)
(* Bounds of the model.                                                    *)
(***************************************************************************)
\* raw bytes an adversarial peer writes after its frame header
MaxRaw == 2
\* identifier/value pairs an adversarial peer writes after a SETTINGS header
MaxPairs == 2
\* frames a well-behaved peer encodes onto one stream
MaxFrames == 1
\* skipped frames a call of ParseNext is followed for, step by step
MaxIter == 4

(***************************************************************************)
(* Error values.                                                           *)
(***************************************************************************)
ErrNil           == "nil"
ErrEOF           == "EOF"
ErrUnexpectedEOF == "ErrUnexpectedEOF"
errHijacked      == "hijacked"
ErrReserved      == "http3: reserved frame type"
ErrSettingsSize  == "unexpected size for SETTINGS frame"
ErrDuplicate     == "duplicate setting"
ErrInvalidExtendedConnect == "invalid value for SETTINGS_ENABLE_CONNECT_PROTOCOL"
ErrInvalidDatagram        == "invalid value for SETTINGS_H3_DATAGRAM"
ErrGoAwayLength  == "GOAWAY frame: inconsistent length"
ErrHandler       == "handler error"

(***************************************************************************)
(* Program constants.                                                      *)
(***************************************************************************)
settingExtendedConnect == 8
settingDatagram == 51
\* 8*(1<<10), the ceiling on the declared length of a SETTINGS frame
MaxSettingsLen == 8192
\* the largest frame type defined by the base format (t > 0xd is an extension)
MaxBaseType == 13

(***************************************************************************)
(* Frames.  Every variant is a record with the same fields.                *)
(***************************************************************************)
NoOther == [k \in {} |-> 0]

NilFrame == [kind |-> "nil", Length |-> 0, Datagram |-> FALSE,
             ExtendedConnect |-> FALSE, Other |-> NoOther, StreamID |-> 0]

dataFrame(l)    == [NilFrame EXCEPT !.kind = "Data", !.Length = l]
headersFrame(l) == [NilFrame EXCEPT !.kind = "Headers", !.Length = l]
goAwayFrame(id) == [NilFrame EXCEPT !.kind = "GoAway", !.StreamID = id]
settingsFrame(dg, ec, other) ==
    [NilFrame EXCEPT !.kind = "Settings", !.Datagram = dg,
                     !.ExtendedConnect = ec, !.Other = other]

(***************************************************************************)
(* quicvarint: the variable-length integers of RFC 9000, section 16.  The  *)
(* two high bits of the first byte select a width of 1, 2, 4 or 8 bytes;   *)
(* the remaining bits and the following bytes hold the value, big-endian.  *)
(***************************************************************************)
Pow2(n) == IF n = 0 THEN 1 ELSE IF n = 1 THEN 2 ELSE IF n = 2 THEN 4 ELSE 8

\* quicvarint.Len
VarintLen(v) ==
    IF v <= 63 THEN 1
    ELSE IF v <= 16383 THEN 2
    ELSE IF v <= 1073741823 THEN 4
    ELSE 8

\* quicvarint.Append(b, v)
VarintAppend(b, v) ==  \* for v < 2^30; wider values are not used here
    IF v <= 63 THEN Append(b, v)
    ELSE IF v <= 16383
         THEN b \o << 64 + (v \div 256), v % 256 >>
         ELSE b \o << 128 + (v \div 16777216), (v \div 65536) % 256,
                      (v \div 256) % 256, v % 256 >>

RECURSIVE BigEndian(_, _, _, _)
\* value of the bytes s[from..to], accumulated onto acc
BigEndian(s, from, to, acc) ==
    IF from > to THEN acc
    ELSE BigEndian(s, from + 1, to, acc * 256 + s[from])

\* quicvarint.Read on a byte reader over s whose cursor is at pos (bytes
\* consumed so far).  A ReadByte at the end of the stream fails with io.EOF
\* and that error is returned as it is, also after the first byte.
VarintRead(s, pos) ==
    IF pos >= Len(s)
    THEN [val |-> 0, err |-> ErrEOF, pos |-> pos]
    ELSE LET first == s[pos + 1]
             w     == Pow2(first \div 64)
         IN  IF pos + w > Len(s)
             THEN [val |-> 0, err |-> ErrEOF, pos |-> Len(s)]
             ELSE [val |-> BigEndian(s, pos + 2, pos + w, first % 64),
                   err |-> ErrNil, pos |-> pos + w]


(***************************************************************************)
(* Readers of the io package used by the parser.                           *)
(***************************************************************************)
\* io.ReadFull(r, buf) with len(buf) = l: io.EOF when no byte could be read,
\* io.ErrUnexpectedEOF when some but fewer than l bytes were read.
ReadFull(s, pos, l) ==
    IF l = 0 THEN [err |-> ErrNil, pos |-> pos]
    ELSE IF Len(s) - pos >= l THEN [err |-> ErrNil, pos |-> pos + l]
    ELSE IF Len(s) = pos THEN [err |-> ErrEOF, pos |-> pos]
    ELSE [err |-> ErrUnexpectedEOF, pos |-> Len(s)]

\* io.CopyN(io.Discard, qr, l): io.EOF when the stream ends before l bytes
\* were discarded.
CopyN(s, pos, l) ==
    IF Len(s) - pos >= l THEN [err |-> ErrNil, pos |-> pos + l]
    ELSE [err |-> ErrEOF, pos |-> Len(s)]

(***************************************************************************)
(* SETTINGS: parseSettingsFrame.                                           *)
(***************************************************************************)
\* State of the loop over the buffered body: the frame under construction,
\* the two "already read" flags and the error that ends the loop.
SettingsAcc(frame, rd, rec, err) ==
    [frame |-> frame, readDatagram |-> rd, readExtendedConnect |-> rec,
     err |-> err]

\* mutant: an identifier already in frame.Other is not noticed
OtherHasNever(other, id) == FALSE
\* _, ok := frame.Other[id]
OtherHas(other, id) == id \in DOMAIN other

\* mutant: an explicit 0 is rejected as well
InvalidFlagNot1(val) == val # 1
\* val != 0 && val != 1
InvalidFlag(val) == val # 0 /\ val # 1

\* The switch on the identifier of one id/value pair (frames.go 139-166).
SettingsPair(acc, id, val) ==
    IF id = settingExtendedConnect
    THEN IF acc.readExtendedConnect
         THEN [acc EXCEPT !.err = ErrDuplicate]
         ELSE IF InvalidFlag(val)
              THEN [acc EXCEPT !.readExtendedConnect = TRUE,
                               !.err = ErrInvalidExtendedConnect]
              ELSE [acc EXCEPT !.readExtendedConnect = TRUE,
                               !.frame.ExtendedConnect = (val = 1)]
    ELSE IF id = settingDatagram
    THEN IF acc.readDatagram
         THEN [acc EXCEPT !.err = ErrDuplicate]
         ELSE IF InvalidFlag(val)
              THEN [acc EXCEPT !.readDatagram = TRUE,
                               !.err = ErrInvalidDatagram]
              ELSE [acc EXCEPT !.readDatagram = TRUE,
                               !.frame.Datagram = (val = 1)]
    ELSE IF OtherHas(acc.frame.Other, id)
         THEN [acc EXCEPT !.err = ErrDuplicate]
         ELSE [acc EXCEPT !.frame.Other =
                   [k \in (DOMAIN acc.frame.Other) \cup {id} |->
                       IF k = id THEN val ELSE acc.frame.Other[k]]]

RECURSIVE SettingsLoop(_, _, _)
\* for b.Len() > 0 { id, val := two varints read from the buffer; switch }
SettingsLoop(buf, bpos, acc) ==
    IF bpos >= Len(buf) THEN acc
    ELSE LET rid == VarintRead(buf, bpos)
         IN  IF rid.err # ErrNil THEN [acc EXCEPT !.err = rid.err]
             ELSE LET rval == VarintRead(buf, rid.pos)
                  IN  IF rval.err # ErrNil THEN [acc EXCEPT !.err = rval.err]
                      ELSE LET nxt == SettingsPair(acc, rid.val, rval.val)
                           IN  IF nxt.err # ErrNil THEN nxt
                               ELSE SettingsLoop(buf, rval.pos, nxt)

\* The body of a SETTINGS frame, once buffered (frames.go 126-168).
parseSettingsBody(buf) ==
    SettingsLoop(buf, 0,
        SettingsAcc(settingsFrame(FALSE, FALSE, NoOther), FALSE, FALSE, ErrNil))

\* mutant: the ceiling itself is rejected too
SettingsTooLargeAtCeiling(l) == l >= MaxSettingsLen
\* l > 8*(1<<10)
SettingsTooLarge(l) == l > MaxSettingsLen

\* mutant: io.ErrUnexpectedEOF is returned as it is
SettingsReadErrUnmapped(err) == err
\* the error returned when io.ReadFull fails (frames.go 120-125)
SettingsReadErr(err) == IF err = ErrUnexpectedEOF THEN ErrEOF ELSE err

\* parseSettingsFrame(r, l) with r at pos.  eof tells that a read met the
\* end of the stream.
parseSettingsFrame(s, pos, l) ==
    IF SettingsTooLarge(l)
    THEN [frame |-> NilFrame, err |-> ErrSettingsSize, pos |-> pos,
          eof |-> FALSE]
    ELSE LET rf == ReadFull(s, pos, l)
         IN  IF rf.err # ErrNil
             THEN [frame |-> NilFrame,
                   err |-> SettingsReadErr(rf.err),
                   pos |-> rf.pos, eof |-> TRUE]
             ELSE LET acc == parseSettingsBody(SubSeq(s, pos + 1, pos + l))
                  IN  [frame |-> IF acc.err = ErrNil THEN acc.frame
                                 ELSE NilFrame,
                       err |-> acc.err, pos |-> rf.pos, eof |-> FALSE]

(***************************************************************************)
(* GOAWAY: parseGoAwayFrame.                                               *)
(***************************************************************************)
\* countingByteReader.Read after the reads that moved the cursor from
\* before to after: the number of bytes read through the wrapper.
countingByteReaderRead(before, after) == after - before

\* mutant: only an identifier longer than the declared length is rejected
GoAwayInconsistentLonger(read, l) == read > l
\* mutant: the width of the identifier is not compared with the length
GoAwayInconsistentNever(read, l) == FALSE
\* cbr.Read != int(l)
GoAwayInconsistent(read, l) == read # l

parseGoAwayFrame(s, pos, l) ==
    LET rid == VarintRead(s, pos)
    IN  IF rid.err # ErrNil
        THEN [frame |-> NilFrame, err |-> rid.err, pos |-> rid.pos,
              eof |-> TRUE]
        ELSE IF GoAwayInconsistent(countingByteReaderRead(pos, rid.pos), l)
             THEN [frame |-> NilFrame, err |-> ErrGoAwayLength,
                   pos |-> rid.pos, eof |-> FALSE]
             ELSE [frame |-> goAwayFrame(rid.val), err |-> ErrNil,
                   pos |-> rid.pos, eof |-> FALSE]

(***************************************************************************)
(* The dispatcher: frameParser.ParseNext.                                  *)
(*                                                                         *)
(* h describes p.unknownFrameHandler during one call: h.registered tells   *)
(* whether the field is non-nil, h.onErr is what the handler answers when  *)
(* called with (0, err) and h.onExt what it answers when called with       *)
(* (t, nil); an answer is a pair [hijacked, err].                          *)
(***************************************************************************)
ErrCodeFrameUnexpected == "ErrCodeFrameUnexpected"

\* One call of p.closeConn and one call of p.unknownFrameHandler; at is the
\* cursor of the stream when the call is made, ans the handler's answer.
CloseCall(code, reason, at) == [code |-> code, reason |-> reason, at |-> at]
HandlerCall(t, err, at, ans) == [t |-> t, err |-> err, at |-> at, ans |-> ans]

\* An iteration of the loop that returns from ParseNext.
Return(frame, err, pos, closes, cbs, eof) ==
    [done |-> TRUE, frame |-> frame, err |-> err, pos |-> pos,
     closes |-> closes, cbs |-> cbs, eof |-> eof]
\* mutant: after a skipped frame the loop reads from the start of the stream
ContinueFromStart(pos, cbs) ==
    [done |-> FALSE, frame |-> NilFrame, err |-> ErrNil, pos |-> 0,
     closes |-> << >>, cbs |-> cbs, eof |-> FALSE]
\* An iteration that skipped a frame and goes round the loop again.
Continue(pos, cbs) ==
    [done |-> FALSE, frame |-> NilFrame, err |-> ErrNil, pos |-> pos,
     closes |-> << >>, cbs |-> cbs, eof |-> FALSE]

\* Result of a codec, returned as the result of ParseNext.
ReturnCodec(r, cbs) == Return(r.frame, r.err, r.pos, << >>, cbs, r.eof)

\* mutant: 0x9 is left out of the case
ForbiddenTypesNo9 == {2, 6, 8}
\* mutant: CANCEL_PUSH (0x3) is put with the forbidden types
ForbiddenTypesWith3 == {2, 3, 6, 8, 9}
\* case 0x2, 0x6, 0x8, 0x9
ForbiddenTypes == {2, 6, 8, 9}

\* mutant: the body of an unknown frame is not skipped
SkipBodyNothing(s, pos, l) == CopyN(s, pos, 0)
\* "skip over unknown frames": io.CopyN(io.Discard, qr, int64(l))
SkipBody(s, pos, l) == CopyN(s, pos, l)

\* mutant: the first extension type 0xe is not offered to the handler
HandlerWantedOffByOne(t, reg) == t > MaxBaseType + 1 /\ reg
\* mutant: MAX_PUSH_ID (0xd) is offered to the handler as well
HandlerWantedFrom0xd(t, reg) == t >= MaxBaseType /\ reg
\* t > 0xd && p.unknownFrameHandler != nil
HandlerWanted(t, reg) == t > MaxBaseType /\ reg

\* mutant: the empty case 0x5 falls through into case 0x7
IsGoAwayOr0x5(t) == t \in {5, 7}
\* case 0x7 (the empty case 0x5 before it does not fall through)
IsGoAway(t) == t = 7

\* mutant: the handler's "hijacked" is not looked at
AfterHandlerIgnoresHijack(ans) == ans.err
\* mutant: an answer with a nil error always counts as "hijacked"
AfterHandlerAlwaysHijack(ans) == IF ans.err # ErrNil THEN ans.err ELSE errHijacked
\* mutant: "hijacked" is looked at before the handler's error
AfterHandlerHijackFirst(ans) == IF ans.hijacked THEN errHijacked ELSE ans.err
\* What ParseNext does with the handler's answer (frames.go 35-40, 47-52):
\* the error it returns at once, or nil when it goes on.
AfterHandler(ans) ==
    IF ans.err # ErrNil THEN ans.err
    ELSE IF ans.hijacked THEN errHijacked
    ELSE ErrNil

\* The switch on the frame type and the skip of the body (frames.go 60-79);
\* pos is the cursor after the length field.
Dispatch(s, pos, t, l, cbs) ==
    IF t = 0 THEN Return(dataFrame(l), ErrNil, pos, << >>, cbs, FALSE)
    ELSE IF t = 1 THEN Return(headersFrame(l), ErrNil, pos, << >>, cbs, FALSE)
    ELSE IF t = 4 THEN ReturnCodec(parseSettingsFrame(s, pos, l), cbs)
    ELSE IF IsGoAway(t) THEN ReturnCodec(parseGoAwayFrame(s, pos, l), cbs)
    ELSE IF t \in ForbiddenTypes
    THEN Return(NilFrame, ErrReserved, pos,
                << CloseCall(ErrCodeFrameUnexpected, "", pos) >>, cbs, FALSE)
    ELSE LET c == SkipBody(s, pos, l)
         IN  IF c.err # ErrNil
             THEN Return(NilFrame, c.err, c.pos, << >>, cbs, TRUE)
             ELSE Continue(c.pos, cbs)

\* One iteration of the for loop of ParseNext (frames.go 31-79).
LoopIter(s, pos, h) ==
    LET rt == VarintRead(s, pos)
    IN  IF rt.err # ErrNil
        THEN IF h.registered
             THEN LET cbs == << HandlerCall(0, rt.err, rt.pos, h.onErr) >>
                  IN  IF AfterHandler(h.onErr) # ErrNil
                      THEN Return(NilFrame, AfterHandler(h.onErr), rt.pos,
                                  << >>, cbs, TRUE)
                      ELSE Return(NilFrame, rt.err, rt.pos, << >>, cbs, TRUE)
             ELSE Return(NilFrame, rt.err, rt.pos, << >>, << >>, TRUE)
        ELSE LET called == HandlerWanted(rt.val, h.registered)
                 cbs    == IF called
                           THEN << HandlerCall(rt.val, ErrNil, rt.pos, h.onExt) >>
                           ELSE << >>
             IN  IF called /\ AfterHandler(h.onExt) # ErrNil
                 THEN Return(NilFrame, AfterHandler(h.onExt), rt.pos,
                             << >>, cbs, FALSE)
                 ELSE LET rl == VarintRead(s, rt.pos)
                      IN  IF rl.err # ErrNil
                          THEN Return(NilFrame, rl.err, rl.pos, << >>, cbs, TRUE)
                          ELSE Dispatch(s, rl.pos, rt.val, rl.val, cbs)

RECURSIVE ParseLoop(_, _, _, _, _)
\* for { ... }: iterations are run until one returns.  cbs collects the
\* handler calls of the iterations that skipped a frame, skipped the cursor
\* at the start of each skipped frame.
ParseLoop(s, pos, h, cbs, skipped) ==
    LET it == LoopIter(s, pos, h)
    IN  IF it.done
        THEN [frame |-> it.frame, err |-> it.err, pos |-> it.pos,
              closes |-> it.closes, cbs |-> cbs \o it.cbs, eof |-> it.eof,
              frameStart |-> pos, skipped |-> skipped]
        ELSE ParseLoop(s, it.pos, h, cbs \o it.cbs, Append(skipped, pos))

\* p.ParseNext() on the stream s read up to pos.
ParseNext(s, pos, h) == ParseLoop(s, pos, h, << >>, << >>)

(***************************************************************************)
(* Encoders: the Append methods.                                           *)
(***************************************************************************)
dataFrameAppend(b, f)    == VarintAppend(VarintAppend(b, 0), f.Length)
\* mutant: the HEADERS encoder writes the type of DATA
headersFrameAppendType0(b, f) == VarintAppend(VarintAppend(b, 0), f.Length)
headersFrameAppend(b, f) == VarintAppend(VarintAppend(b, 1), f.Length)

\* mutant: the length field of GOAWAY is always 1
goAwayFrameAppendLen1(b, f) ==
    VarintAppend(VarintAppend(VarintAppend(b, 7), 1), f.StreamID)
goAwayFrameAppend(b, f) ==
    VarintAppend(VarintAppend(VarintAppend(b, 7), VarintLen(f.StreamID)),
                 f.StreamID)

RECURSIVE OtherLen(_, _)
\* for id, val := range f.Other { l += Len(id) + Len(val) }
OtherLen(other, keys) ==
    IF keys = {} THEN 0
    ELSE LET id == CHOOSE k \in keys : TRUE
         IN  VarintLen(id) + VarintLen(other[id]) + OtherLen(other, keys \ {id})

RECURSIVE OtherAppend(_, _, _)
\* for id, val := range f.Other { append id, val }, ranging in the order
\* given by the sequence order (Go leaves the order of a map range open).
OtherAppend(b, other, order) ==
    IF order = << >> THEN b
    ELSE OtherAppend(VarintAppend(VarintAppend(b, Head(order)),
                                  other[Head(order)]),
                     other, Tail(order))

\* mutant: the datagram pair is left out of the length
settingsLenNoDatagram(f) ==
    OtherLen(f.Other, DOMAIN f.Other)
    + (IF f.ExtendedConnect
       THEN VarintLen(settingExtendedConnect) + VarintLen(1) ELSE 0)
\* the body length computed by settingsFrame.Append (frames.go 173-182)
settingsLen(f) ==
    OtherLen(f.Other, DOMAIN f.Other)
    + (IF f.Datagram THEN VarintLen(settingDatagram) + VarintLen(1) ELSE 0)
    + (IF f.ExtendedConnect
       THEN VarintLen(settingExtendedConnect) + VarintLen(1) ELSE 0)

\* settingsFrame.Append(b) when the range over f.Other visits the keys in
\* the order given.
settingsFrameAppend(b, f, order) ==
    LET b1 == VarintAppend(VarintAppend(b, 4), settingsLen(f))
        b2 == IF f.Datagram
              THEN VarintAppend(VarintAppend(b1, settingDatagram), 1)
              ELSE b1
        b3 == IF f.ExtendedConnect
              THEN VarintAppend(VarintAppend(b2, settingExtendedConnect), 1)
              ELSE b2
    IN  OtherAppend(b3, f.Other, order)

\* the orders in which a range over the map can visit its keys
Orders(other) ==
    { o \in [1..Cardinality(DOMAIN other) -> DOMAIN other] :
        \A i, j \in DOMAIN o : i # j => o[i] # o[j] }

(***************************************************************************)
(* The inputs of the model.                                                *)
(***************************************************************************)
\* frame types an adversarial peer puts in its frame header: the base
\* format's 0x0..0xd, the first extension type 0xe, and 0x20
FrameTypes == (0 .. 14) \cup {32}
\* lengths it declares
DeclaredLens == {0, 1, 2, 4, 8192, 8193}
\* bytes it writes after the header: 0x00, 0x01, 0x08, 0x20, and 0x40, the
\* first byte of a two-byte varint
RawBytes == {0, 1, 8, 32, 64}
\* identifiers and values of the pairs it writes after a SETTINGS header
PairKeys == {settingExtendedConnect, settingDatagram, 32}
PairVals == {0, 1, 2}

\* what a well-behaved peer encodes
Lengths   == {0, 5, 64, 16384}
StreamIDs == {5, 64, 16384}
OtherMaps == { NoOther, 32 :> 300, (32 :> 300) @@ (64 :> 1),
               settingExtendedConnect :> 1 }
SettingsValues ==
    { settingsFrame(dg, ec, o) : dg \in BOOLEAN, ec \in BOOLEAN, o \in OtherMaps }

\* answers of the unknown frame handler
Answers  == [hijacked : BOOLEAN, err : {ErrNil, ErrHandler}]
Decline  == [hijacked |-> FALSE, err |-> ErrNil]
NoHandler == [registered |-> FALSE, onErr |-> Decline, onExt |-> Decline]
Handlers(reg) ==
    IF reg THEN [registered : {TRUE}, onErr : Answers, onExt : Answers]
    ELSE {NoHandler}

(***************************************************************************)
(* State.                                                                  *)
(***************************************************************************)
VARIABLES
    stream,        \* the bytes the peer has written to the stream p.r reads
    sent,          \* the frames encoded onto the stream, with their offsets
    hdr,           \* << type >> of the header written by an adversarial peer
    raw,           \* number of raw bytes written by an adversarial peer
    pairs,         \* number of SETTINGS pairs written by an adversarial peer
    registered,    \* whether p.unknownFrameHandler is set
    pos,           \* cursor of p.r: the number of bytes read from the stream
    calls,         \* number of calls of ParseNext made
    last,          \* result and trace of the last call of ParseNext
    closeCalls,    \* all calls of p.closeConn made so far
    handlerCalls,  \* all calls of p.unknownFrameHandler made so far
    bodyLeft,      \* length of the DATA/HEADERS body the caller has to read
    run            \* the call of ParseNext in progress, followed step by step

vars == << stream, sent, hdr, raw, pairs, registered, pos, calls, last, closeCalls,
           handlerCalls, bodyLeft, run >>

NoCall ==
    [frame |-> NilFrame, err |-> ErrNil, pos |-> 0, closes |-> << >>,
     cbs |-> << >>, eof |-> FALSE, frameStart |-> 0, skipped |-> << >>,
     start |-> 0]

\* no call of ParseNext is in progress
Idle ==
    [active |-> FALSE, pos |-> 0, start |-> 0, h |-> NoHandler,
     iter |-> << >>, cbs |-> << >>, skipped |-> << >>]

Init ==
    /\ stream = << >>
    /\ sent = << >>
    /\ hdr = << >>
    /\ raw = 0
    /\ pairs = 0
    /\ registered \in BOOLEAN
    /\ pos = 0
    /\ calls = 0
    /\ last = NoCall
    /\ closeCalls = << >>
    /\ handlerCalls = << >>
    /\ bodyLeft = 0
    /\ run = Idle

reader == << registered, pos, calls, last, closeCalls, handlerCalls, bodyLeft,
             run >>

\* the stream holds nothing but the frames encoded onto it
OnlyEncoded ==
    Len(stream) = (IF sent = << >> THEN 0 ELSE sent[Len(sent)].to)

Sent(f, b) == [frame |-> f, from |-> Len(stream), to |-> Len(b)]

\* A well-behaved peer may encode one more frame onto the stream.
CanEncode ==
    /\ calls = 0
    /\ OnlyEncoded
    /\ Len(sent) < MaxFrames

\* The frame f, encoded as the bytes b, is appended to the stream.
Encode(f, b) ==
    /\ stream' = b
    /\ sent' = Append(sent, Sent(f, b))
    /\ UNCHANGED << hdr, raw, pairs, reader >>

AppendData ==
    /\ CanEncode
    /\ \E n \in Lengths :
          Encode(dataFrame(n), dataFrameAppend(stream, dataFrame(n)))

AppendHeaders ==
    /\ CanEncode
    /\ \E n \in Lengths :
          Encode(headersFrame(n), headersFrameAppend(stream, headersFrame(n)))

AppendGoAway ==
    /\ CanEncode
    /\ \E id \in StreamIDs :
          Encode(goAwayFrame(id), goAwayFrameAppend(stream, goAwayFrame(id)))

AppendSettings ==
    /\ CanEncode
    /\ \E f \in SettingsValues : \E order \in Orders(f.Other) :
          Encode(f, settingsFrameAppend(stream, f, order))

\* An adversarial peer opens the stream with a frame header of its choice ...
WriteFrameHeader ==
    /\ calls = 0
    /\ stream = << >>
    /\ \E t \in FrameTypes, l \in DeclaredLens :
          /\ stream' = VarintAppend(VarintAppend(stream, t), l)
          /\ hdr' = << t >>
    /\ UNCHANGED << sent, raw, pairs, reader >>

\* ... writes raw bytes ...
WriteRaw ==
    /\ calls = 0
    /\ sent = << >>
    /\ pairs = 0
    /\ raw < MaxRaw
    /\ \E b \in RawBytes : stream' = Append(stream, b)
    /\ raw' = raw + 1
    /\ UNCHANGED << sent, hdr, pairs, reader >>

\* ... or, after a SETTINGS header, identifier/value pairs.
WriteSettingsPair ==
    /\ calls = 0
    /\ hdr = << 4 >>
    /\ raw = 0
    /\ pairs < MaxPairs
    /\ \E k \in PairKeys, v \in PairVals :
          stream' = VarintAppend(VarintAppend(stream, k), v)
    /\ pairs' = pairs + 1
    /\ UNCHANGED << sent, hdr, raw, reader >>

\* The caller calls p.ParseNext(); it stops calling after an error.
CallParseNext ==
    /\ last.err = ErrNil
    /\ \E h \in Handlers(registered) :
          LET r == ParseNext(stream, pos, h)
          IN  /\ pos' = r.pos
              /\ last' = [frame |-> r.frame, err |-> r.err, pos |-> r.pos,
                          closes |-> r.closes, cbs |-> r.cbs, eof |-> r.eof,
                          frameStart |-> r.frameStart, skipped |-> r.skipped,
                          start |-> pos]
              /\ closeCalls' = closeCalls \o r.closes
              /\ handlerCalls' = handlerCalls \o r.cbs
              /\ bodyLeft' = IF r.frame.kind \in {"Data", "Headers"}
                             THEN r.frame.Length ELSE 0
    /\ calls' = calls + 1
    /\ UNCHANGED << stream, sent, hdr, raw, pairs, registered, run >>

\* The caller reads the body of the DATA or HEADERS frame it was handed.
ConsumeBody ==
    /\ bodyLeft > 0
    /\ ~run.active
    /\ pos' = IF pos + bodyLeft <= Len(stream) THEN pos + bodyLeft
              ELSE Len(stream)
    /\ bodyLeft' = 0
    /\ UNCHANGED << stream, sent, hdr, raw, pairs, registered, calls, last, closeCalls,
                    handlerCalls, run >>

Next ==
    \/ AppendData
    \/ AppendHeaders
    \/ AppendGoAway
    \/ AppendSettings
    \/ WriteFrameHeader
    \/ WriteRaw
    \/ WriteSettingsPair
    \/ CallParseNext
    \/ ConsumeBody

Spec == Init /\ [][Next]_vars

(***************************************************************************)
(* The same system with a call of ParseNext followed one iteration of its  *)
(* for loop at a time.  The reads of the stream never block, so a call     *)
(* that has started keeps running: weak fairness of LoopStep.              *)
(***************************************************************************)

\* What one iteration of the loop does from each cursor position i - 1 of
\* the stream s with the handler h: neither changes during a call.
Iterations(s, h) == [i \in 1 .. (Len(s) + 1) |-> LoopIter(s, i - 1, h)]

\* The caller calls p.ParseNext(): qr is made and the loop is entered.
BeginParseNext ==
    /\ last.err = ErrNil
    /\ ~run.active
    /\ \E h \in Handlers(registered) :
          run' = [active |-> TRUE, pos |-> pos, start |-> pos, h |-> h,
                  iter |-> Iterations(stream, h),
                  cbs |-> << >>, skipped |-> << >>]
    /\ calls' = calls + 1
    /\ UNCHANGED << stream, sent, hdr, raw, pairs, registered, pos, last,
                    closeCalls, handlerCalls, bodyLeft >>

\* One iteration of the for loop: it returns from ParseNext, or it has
\* skipped a frame and the loop goes round.  A call is followed for MaxIter
\* skipped frames; a call that needs more is never seen to return.
LoopStep ==
    /\ run.active
    /\ Len(run.skipped) < MaxIter
    /\ LET it == run.iter[run.pos + 1]
       IN  IF it.done
           THEN /\ pos' = it.pos
                /\ last' = [frame |-> it.frame, err |-> it.err, pos |-> it.pos,
                            closes |-> it.closes, cbs |-> run.cbs \o it.cbs,
                            eof |-> it.eof, frameStart |-> run.pos,
                            skipped |-> run.skipped, start |-> run.start]
                /\ closeCalls' = closeCalls \o it.closes
                /\ handlerCalls' = handlerCalls \o run.cbs \o it.cbs
                /\ bodyLeft' = IF it.frame.kind \in {"Data", "Headers"}
                               THEN it.frame.Length ELSE 0
                /\ run' = Idle
           ELSE /\ run' = [run EXCEPT !.pos = it.pos,
                                      !.cbs = run.cbs \o it.cbs,
                                      !.skipped = Append(run.skipped, run.pos)]
                /\ UNCHANGED << pos, last, closeCalls, handlerCalls, bodyLeft >>
    /\ UNCHANGED << stream, sent, hdr, raw, pairs, registered, calls >>

NextLoop ==
    \/ AppendData
    \/ AppendHeaders
    \/ AppendGoAway
    \/ AppendSettings
    \/ WriteFrameHeader
    \/ WriteRaw
    \/ WriteSettingsPair
    \/ BeginParseNext
    \/ LoopStep
    \/ ConsumeBody

SpecLoop == Init /\ [][NextLoop]_vars /\ WF_vars(LoopStep)

TypeOK ==
    /\ pos \in 0 .. Len(stream)
    /\ last.pos = pos \/ bodyLeft = 0
    /\ last.err \in {ErrNil, ErrEOF, errHijacked, ErrReserved, ErrSettingsSize,
                     ErrDuplicate, ErrInvalidExtendedConnect,
                     ErrInvalidDatagram, ErrGoAwayLength, ErrHandler}

(***************************************************************************)
(* Properties.  They speak of the last call of ParseNext: last.start is    *)
(* the cursor when it was called, last.frameStart the cursor at the start  *)
(* of the loop iteration that returned, last.pos the cursor on return.     *)
(***************************************************************************)
Called == calls > 0

\* the type and the length field of the frame that starts at offset p
TypeAt(p) == VarintRead(stream, p)
LenAt(p)  == VarintRead(stream, TypeAt(p).pos)
HeaderAt(p) == TypeAt(p).err = ErrNil /\ LenAt(p).err = ErrNil

\* C1: when the frame at which a call of ParseNext ends has type 0x2, 0x6,
\* 0x8 or 0x9 (and its length field is there), the call returns the
\* reserved-frame-type error and no frame, has called closeConn exactly once,
\* with ErrCodeFrameUnexpected and the empty reason, and leaves the cursor
\* right after the length field.
C1_ForbiddenCloses ==
    (Called /\ HeaderAt(last.frameStart)
            /\ TypeAt(last.frameStart).val \in {2, 6, 8, 9})
    => /\ last.err = ErrReserved
       /\ last.frame = NilFrame
       /\ Len(last.closes) = 1
       /\ last.closes[1].code = ErrCodeFrameUnexpected
       /\ last.closes[1].reason = ""
       /\ last.closes[1].at = LenAt(last.frameStart).pos
       /\ last.pos = LenAt(last.frameStart).pos

\* a call ended at a frame of type 0x9 whose body is on the stream, unread
C1_Witness ==
    /\ Called
    /\ HeaderAt(last.frameStart)
    /\ TypeAt(last.frameStart).val = 9
    /\ LenAt(last.frameStart).val > 0
    /\ Len(stream) > last.pos
    /\ Len(closeCalls) = 1

\* The stream ended inside the frame the last call was reading: a read met
\* the end of the stream after at least one byte of the frame was consumed.
Truncated == Called /\ last.eof /\ last.pos > last.frameStart

\* what ParseNext returns when the stream ends cleanly at a frame boundary
CleanEnd == ParseNext(<< >>, 0, NoHandler)

\* every answer the handler gave during the last call was "not hijacked, nil"
AllDeclined == \A i \in DOMAIN last.cbs : last.cbs[i].ans = Decline

\* C2 as stated: when the stream ends in the middle of a frame, the error
\* returned differs from the one returned at a clean end of the stream.
C2_TruncatedDistinct ==
    Truncated => (last.err # ErrNil /\ last.err # CleanEnd.err)

\* C2 as amended: when the stream ends in the middle of a frame, ParseNext
\* returns no frame and an error, and unless the handler replaced it that
\* error is io.EOF, the very error returned at a clean end of the stream.
C2_TruncatedIsEOF ==
    Truncated => /\ last.frame = NilFrame
                 /\ last.err # ErrNil
                 /\ AllDeclined => (last.err = ErrEOF /\ last.err = CleanEnd.err)

\* the stream ended inside the body of a SETTINGS frame, part of it read
C2_Witness ==
    /\ Truncated
    /\ ~registered
    /\ HeaderAt(last.frameStart)
    /\ TypeAt(last.frameStart).val = 4
    /\ last.pos > LenAt(last.frameStart).pos
    /\ last.err = ErrEOF

\* types for which the switch of ParseNext has no case
Unrecognized(t) == t \notin {0, 1, 2, 3, 4, 5, 6, 7, 8, 9, 13}

\* the offset at which the frame at p ends, by its declared length
BoundaryAfter(p) == LenAt(p).pos + LenAt(p).val

\* the call started at a frame of unrecognized type whose body is all there
StartsWithUnknown ==
    /\ Called
    /\ HeaderAt(last.start)
    /\ Unrecognized(TypeAt(last.start).val)
    /\ BoundaryAfter(last.start) <= Len(stream)

\* C3: with no handler registered, a call that starts at a frame of
\* unrecognized type whose body is present skips exactly the header and the
\* declared length, returns nothing for that frame, and returns what a call
\* at the next frame boundary returns.
C3_UnknownSkipped ==
    (StartsWithUnknown /\ ~registered)
    => LET b == BoundaryAfter(last.start)
           r == ParseNext(stream, b, NoHandler)
       IN  /\ Len(last.skipped) >= 1
           /\ last.skipped[1] = last.start
           /\ IF Len(last.skipped) >= 2 THEN last.skipped[2] = b
              ELSE last.frameStart = b
           /\ last.frameStart >= b
           /\ last.frame = r.frame
           /\ last.err = r.err
           /\ last.pos = r.pos

\* a frame of type 0x20 was skipped and the frame after it was returned
C3_Witness ==
    /\ StartsWithUnknown
    /\ ~registered
    /\ TypeAt(last.start).val = 32
    /\ last.frame.kind = "Data"
    /\ last.frameStart = BoundaryAfter(last.start)

(***************************************************************************)
(* SETTINGS and GOAWAY frames seen by the last call.                       *)
(***************************************************************************)
\* the call ended at a frame of type t whose type and length are there
EndedAt(t) ==
    /\ Called
    /\ HeaderAt(last.frameStart)
    /\ TypeAt(last.frameStart).val = t

\* declared length and start of the body of the frame the call ended at
EndLen  == LenAt(last.frameStart).val
EndBody == LenAt(last.frameStart).pos

\* the call ended at a SETTINGS frame within the ceiling, its body present
SettingsBodyPresent ==
    /\ EndedAt(4)
    /\ EndLen <= MaxSettingsLen
    /\ EndBody + EndLen <= Len(stream)

RECURSIVE PairsOf(_, _)
\* the complete identifier/value pairs of a SETTINGS body, in wire order
PairsOf(buf, bpos) ==
    LET rid  == VarintRead(buf, bpos)
        rval == VarintRead(buf, rid.pos)
    IN  IF bpos >= Len(buf) \/ rid.err # ErrNil \/ rval.err # ErrNil
        THEN << >>
        ELSE << [id |-> rid.val, val |-> rval.val] >> \o PairsOf(buf, rval.pos)

EndPairs == PairsOf(SubSeq(stream, EndBody + 1, EndBody + EndLen), 0)

\* pair j repeats the identifier of an earlier pair
Repeats(ps, j) == \E i \in 1 .. (j - 1) : ps[i].id = ps[j].id
HasDuplicate(ps) == \E j \in DOMAIN ps : Repeats(ps, j)
FirstRepeat(ps) == CHOOSE j \in DOMAIN ps :
                      Repeats(ps, j) /\ \A k \in 1 .. (j - 1) : ~Repeats(ps, k)

\* a pair before the first repeat gives a named setting a value not 0 or 1
BadFlagBefore(ps, j) ==
    \E k \in 1 .. (j - 1) :
        /\ ps[k].id \in {settingExtendedConnect, settingDatagram}
        /\ ps[k].val \notin {0, 1}

\* C4 as stated: a SETTINGS body, within the ceiling and fully present, in
\* which an identifier occurs twice always fails with "duplicate setting".
C4_DuplicateAlways ==
    (SettingsBodyPresent /\ HasDuplicate(EndPairs))
    => (last.err = ErrDuplicate /\ last.frame = NilFrame)

\* C4 as amended: such a body never yields a Settings; it fails with
\* "duplicate setting" unless a pair before the repeated one gives 0x8 or
\* 0x33 a value other than 0 or 1, and then with the invalid-value error.
C4_DuplicateOrInvalid ==
    (SettingsBodyPresent /\ HasDuplicate(EndPairs))
    => /\ last.frame = NilFrame
       /\ IF BadFlagBefore(EndPairs, FirstRepeat(EndPairs))
          THEN last.err \in {ErrInvalidExtendedConnect, ErrInvalidDatagram}
          ELSE last.err = ErrDuplicate

\* identifier 0x20 occurs twice with different values: duplicate setting
C4_Witness ==
    /\ SettingsBodyPresent
    /\ Len(EndPairs) = 2
    /\ EndPairs[1].id = 32 /\ EndPairs[2].id = 32
    /\ EndPairs[1].val # EndPairs[2].val
    /\ last.err = ErrDuplicate

\* C5: a SETTINGS frame that declares more than 8192 bytes fails with the
\* size error and the cursor stays right after the length field; a frame
\* that declares exactly 8192 bytes does not fail with the size error.
C5_Oversized ==
    EndedAt(4)
    => /\ EndLen > 8192 => /\ last.err = ErrSettingsSize
                           /\ last.frame = NilFrame
                           /\ last.pos = EndBody
       /\ EndLen = 8192 => last.err # ErrSettingsSize

\* 8193 bytes declared, bytes follow the length field and stay unread
C5_Witness ==
    /\ EndedAt(4)
    /\ EndLen = 8193
    /\ Len(stream) > EndBody
    /\ last.pos = EndBody
    /\ last.err = ErrSettingsSize

\* the stream identifier of the GOAWAY frame the call ended at
EndID == VarintRead(stream, EndBody)

\* C6: a GOAWAY frame whose declared length is not the number of bytes of
\* its encoded stream identifier fails with "inconsistent length", and no
\* GoAway is returned.
C6_GoAwayLength ==
    (EndedAt(7) /\ EndID.err = ErrNil /\ EndID.pos - EndBody # EndLen)
    => (last.err = ErrGoAwayLength /\ last.frame = NilFrame)

\* a one-byte identifier in a frame that declares two bytes
C6_Witness ==
    /\ EndedAt(7)
    /\ EndID.err = ErrNil
    /\ EndID.pos - EndBody = 1
    /\ EndLen = 2
    /\ last.err = ErrGoAwayLength

(***************************************************************************)
(* Round trips: the last call started where an encoded frame starts.       *)
(***************************************************************************)
\* the call parsed the i-th encoded frame
Parsed(i) == Called /\ i \in DOMAIN sent /\ last.start = sent[i].from

\* C7: a Settings whose Other holds neither 0x8 nor 0x33, encoded by
\* settingsFrame.Append in any order of the map, is parsed back to the same
\* Datagram, ExtendedConnect and Other, and the whole frame is consumed.
C7_SettingsRoundTrip ==
    \A i \in DOMAIN sent :
        (/\ Parsed(i)
         /\ sent[i].frame.kind = "Settings"
         /\ DOMAIN sent[i].frame.Other
               \cap {settingExtendedConnect, settingDatagram} = {})
        => /\ last.err = ErrNil
           /\ last.frame.kind = "Settings"
           /\ last.frame.Datagram = sent[i].frame.Datagram
           /\ last.frame.ExtendedConnect = sent[i].frame.ExtendedConnect
           /\ last.frame.Other = sent[i].frame.Other
           /\ last.pos = sent[i].to

\* both flags and two other settings went through the round trip
C7_Witness ==
    /\ Parsed(1)
    /\ sent[1].frame.kind = "Settings"
    /\ sent[1].frame.Datagram /\ sent[1].frame.ExtendedConnect
    /\ DOMAIN sent[1].frame.Other = {32, 64}
    /\ last.frame = sent[1].frame

\* C8: a DATA or HEADERS frame encoded with length n is parsed back to the
\* same variant with Length n; for every DATA or HEADERS frame the cursor is
\* left right after the length field.
C8_DataHeadersRoundTrip ==
    /\ \A i \in DOMAIN sent :
          (Parsed(i) /\ sent[i].frame.kind \in {"Data", "Headers"})
          => /\ last.err = ErrNil
             /\ last.frame.kind = sent[i].frame.kind
             /\ last.frame.Length = sent[i].frame.Length
             /\ last.pos = sent[i].to
    /\ (EndedAt(0) \/ EndedAt(1))
          => /\ last.err = ErrNil
             /\ last.frame.Length = EndLen
             /\ last.pos = EndBody

\* a HEADERS frame of length 16384 went through the round trip
C8_Witness ==
    /\ Parsed(1)
    /\ sent[1].frame = headersFrame(16384)
    /\ last.frame = headersFrame(16384)
    /\ last.pos = Len(stream)

\* C9: a GOAWAY frame encoded for a stream identifier is parsed back to that
\* identifier, and encoding the result again gives the bytes that were read.
C9_GoAwayRoundTrip ==
    \A i \in DOMAIN sent :
        (Parsed(i) /\ sent[i].frame.kind = "GoAway")
        => /\ last.err = ErrNil
           /\ last.frame = goAwayFrame(sent[i].frame.StreamID)
           /\ goAwayFrameAppend(<< >>, last.frame)
                 = SubSeq(stream, sent[i].from + 1, sent[i].to)
           /\ last.pos = sent[i].to

\* 07 01 05 was parsed to GoAway{5}
C9_Witness ==
    /\ Parsed(1)
    /\ stream = << 7, 1, 5 >>
    /\ last.frame = goAwayFrame(5)
    /\ last.err = ErrNil

(***************************************************************************)
(* The unknown frame handler.                                              *)
(***************************************************************************)
\* the frames the last call looked at: those it skipped and the last one
Visited == { last.skipped[i] : i \in DOMAIN last.skipped } \cup {last.frameStart}

\* the handler was called with (t, nil) when the cursor was at offset at
CalledFor(t, at) ==
    \E i \in DOMAIN last.cbs :
        last.cbs[i].t = t /\ last.cbs[i].err = ErrNil /\ last.cbs[i].at = at

\* the handler's answer for the frame the call ended at, when it was asked
EndAnswers ==
    { last.cbs[i].ans : i \in { j \in DOMAIN last.cbs :
          /\ last.cbs[j].err = ErrNil
          /\ last.cbs[j].at = TypeAt(last.frameStart).pos } }

\* with a handler registered, every frame the call looked at whose type is
\* above 0xd was offered to the handler with the cursor right after the type
OfferedBeforeLength ==
    (Called /\ registered)
    => \A p \in Visited :
          (TypeAt(p).err = ErrNil /\ TypeAt(p).val > 13)
          => CalledFor(TypeAt(p).val, TypeAt(p).pos)

\* C10 as stated: the handler is offered the frame before the length is
\* read, and when it answers "hijacked" ParseNext returns errHijacked with
\* the cursor right after the type.
C10_HijackedAlways ==
    /\ OfferedBeforeLength
    /\ Called => \A a \in EndAnswers :
          a.hijacked => /\ last.err = errHijacked
                        /\ last.pos = TypeAt(last.frameStart).pos

\* C10 as amended: the same, for the answer "hijacked" with a nil error;
\* in either case nothing after the type is read.
C10_HijackedNoError ==
    /\ OfferedBeforeLength
    /\ Called => \A a \in EndAnswers :
          a.hijacked => /\ last.pos = TypeAt(last.frameStart).pos
                        /\ last.frame = NilFrame
                        /\ a.err = ErrNil => last.err = errHijacked

\* a frame of type 0x20 was hijacked; its length field stays unread
C10_Witness ==
    /\ Called
    /\ registered
    /\ last.err = errHijacked
    /\ TypeAt(last.frameStart).val = 32
    /\ CalledFor(32, last.pos)
    /\ last.pos = TypeAt(last.frameStart).pos
    /\ Len(stream) > last.pos

\* the call ended because the type field of a frame could not be read
TagReadFailed == Called /\ TypeAt(last.frameStart).err # ErrNil

\* the calls of the handler that were handed an error
FailureCalls == { i \in DOMAIN last.cbs : last.cbs[i].err # ErrNil }

\* after a failed read of the type field with a handler registered, the
\* handler was called once, last, with type 0 and the error of the read;
\* after any other call it was handed no error
OfferedReadError ==
    /\ (TagReadFailed /\ registered)
       => /\ Cardinality(FailureCalls) = 1
          /\ \A i \in FailureCalls :
                /\ i = Len(last.cbs)
                /\ last.cbs[i].t = 0
                /\ last.cbs[i].err = TypeAt(last.frameStart).err
                /\ last.cbs[i].at = last.pos
    /\ (Called /\ ~(TagReadFailed /\ registered)) => FailureCalls = {}

\* a handler that declined the failed read leaves the error of the read,
\* the one ParseNext returns at this frame with no handler registered
DeclinedReadError ==
    (TagReadFailed /\ registered)
    => \A i \in FailureCalls :
          last.cbs[i].ans = Decline
          => /\ last.err = TypeAt(last.frameStart).err
             /\ last.err = ParseNext(stream, last.frameStart, NoHandler).err
             /\ last.frame = NilFrame

\* C11 as stated: when the read of the type field fails and a handler is
\* registered, the handler is called once with (0, the read error); when it
\* answers "hijacked" ParseNext returns errHijacked, and when it declines
\* with no error ParseNext returns the error of the read, as with no handler.
C11_ReadErrorHijackedAlways ==
    /\ OfferedReadError
    /\ DeclinedReadError
    /\ (TagReadFailed /\ registered)
       => \A i \in FailureCalls :
             last.cbs[i].ans.hijacked => last.err = errHijacked

\* C11 as amended: the same, with errHijacked returned for the answer
\* "hijacked" with a nil error.
C11_ReadErrorHijackedNoError ==
    /\ OfferedReadError
    /\ DeclinedReadError
    /\ (TagReadFailed /\ registered)
       => \A i \in FailureCalls :
             (last.cbs[i].ans.hijacked /\ last.cbs[i].ans.err = ErrNil)
             => (last.err = errHijacked /\ last.frame = NilFrame)

\* the stream ended inside a second frame's type field or right before it,
\* and the handler hijacked the failed read
C11_Witness ==
    /\ TagReadFailed
    /\ registered
    /\ last.frameStart > 0
    /\ last.err = errHijacked
    /\ \E i \in FailureCalls : last.cbs[i].ans = [hijacked |-> TRUE, err |-> ErrNil]

\* the frame the call ended at has a type field that was read and is one of
\* 0x2, 0x6, 0x8, 0x9
ForbiddenTagRead ==
    /\ Called
    /\ TypeAt(last.frameStart).err = ErrNil
    /\ TypeAt(last.frameStart).val \in {2, 6, 8, 9}

\* closeConn is called by no call that returned a frame, at most once by the
\* last call, and by the last call exactly when the frame it ended at has a
\* forbidden type and a length field; no frame of a forbidden type is skipped
ClosedOnlyForForbidden ==
    /\ closeCalls = IF Called THEN last.closes ELSE << >>
    /\ Len(closeCalls) <= 1
    /\ Called
       => /\ Len(last.closes) = 1
             <=> (ForbiddenTagRead /\ HeaderAt(last.frameStart))
          /\ Len(last.closes) = 1 => last.err = ErrReserved
          /\ \A i \in DOMAIN last.skipped :
                TypeAt(last.skipped[i]).val \notin {2, 6, 8, 9}

\* C12 as stated: over any sequence of calls closeConn is called exactly
\* when a forbidden frame type is observed: never for another type, a read
\* error or a codec error, and every time a type field with a forbidden
\* value has been read.
C12_ClosedWhenTagRead ==
    /\ ClosedOnlyForForbidden
    /\ ForbiddenTagRead => Len(last.closes) = 1

\* C12 as amended: closeConn is called exactly when a forbidden type and the
\* length field after it have been read; a forbidden type whose length field
\* is cut off gives io.EOF (or the handler's verdict) and no closeConn.
C12_ClosedWhenHeaderRead ==
    /\ ClosedOnlyForForbidden
    /\ (ForbiddenTagRead /\ ~HeaderAt(last.frameStart))
       => (last.closes = << >> /\ last.err = ErrEOF)

\* a first call returned a frame and the second one met a forbidden type
C12_Witness ==
    /\ calls = 2
    /\ ForbiddenTagRead
    /\ Len(closeCalls) = 1
    /\ closeCalls[1].at = last.pos

RECURSIVE BoundariesFrom(_)
\* the frame boundaries of the stream from offset p on, in wire order: every
\* frame is its type field, its length field and as many bytes as declared
BoundariesFrom(p) ==
    IF HeaderAt(p) /\ BoundaryAfter(p) <= Len(stream)
    THEN {p} \cup BoundariesFrom(BoundaryAfter(p))
    ELSE {p}

Boundaries == BoundariesFrom(0)

\* the call started at a frame boundary and returned a frame
FrameFromBoundary ==
    /\ Called
    /\ last.err = ErrNil
    /\ last.start \in Boundaries

\* C13: a call that starts at a frame boundary and returns a frame has only
\* passed frame boundaries; a returned Settings or GoAway leaves the cursor
\* after the header and the declared length, a returned Data or Headers
\* right after the header with the whole body left to the caller, and once
\* the caller has read that body the cursor is at the next boundary (or at
\* the end of a stream that is shorter than the body).
C13_CursorAtBoundary ==
    FrameFromBoundary
    => /\ Visited \subseteq Boundaries
       /\ HeaderAt(last.frameStart)
       /\ last.frame.kind \in {"Settings", "GoAway"}
          => /\ last.pos = BoundaryAfter(last.frameStart)
             /\ last.pos \in Boundaries
             /\ pos = last.pos
       /\ last.frame.kind \in {"Data", "Headers"}
          => /\ last.pos = EndBody
             /\ last.frame.Length = EndLen
             /\ bodyLeft > 0 => (pos = last.pos /\ bodyLeft = EndLen)
             /\ bodyLeft = 0
                => \/ pos = BoundaryAfter(last.frameStart) /\ pos \in Boundaries
                   \/ pos = Len(stream) /\ BoundaryAfter(last.frameStart) > pos
       /\ last.frame.kind \in {"Settings", "GoAway", "Data", "Headers"}

\* two calls in a row returned a frame, the second one from the boundary the
\* first one left the cursor at
C13_Witness ==
    /\ calls = 2
    /\ FrameFromBoundary
    /\ last.start > 0
    /\ last.frame.kind = "Headers"
    /\ last.pos = last.start + 2

\* C14: in one call of ParseNext the handler is called at most once for each
\* frame the loop looks at: every call of the handler is made at the type
\* field of one of these frames, no two for the same frame, with an error
\* and type 0 or with no error and a type above 0xd.
C14_HandlerOncePerFrame ==
    Called
    => /\ \A i \in DOMAIN last.cbs :
             /\ \E p \in Visited : last.cbs[i].at = TypeAt(p).pos
             /\ \A j \in DOMAIN last.cbs :
                   last.cbs[i].at = last.cbs[j].at => i = j
             /\ last.cbs[i].err # ErrNil
                => (last.cbs[i].t = 0 /\ i = Len(last.cbs))
             /\ last.cbs[i].err = ErrNil => last.cbs[i].t > 13
       /\ \A p \in Visited :
             Cardinality({ i \in DOMAIN last.cbs :
                             last.cbs[i].at = TypeAt(p).pos }) <= 1
       /\ Len(last.cbs) <= Cardinality(Visited)

\* one call asked the handler about an extension frame, which it declined,
\* and then about the failed read of the next type field
C14_Witness ==
    /\ Called
    /\ Len(last.cbs) = 2
    /\ last.cbs[1].t = 32
    /\ last.cbs[1].err = ErrNil
    /\ last.cbs[2].t = 0
    /\ last.cbs[2].err = ErrEOF
    /\ last.cbs[1].at < last.cbs[2].at

\* the same call made with no handler registered
Unregistered == ParseNext(stream, last.start, NoHandler)

\* C15: a call in which a handler is registered and declines whenever it is
\* asked returns the same frame and error, skips the same frames, closes the
\* same and leaves the cursor where the same call with no handler does; each
\* extension frame it declined was skipped to the end of its declared length.
C15_DeclineTransparent ==
    (Called /\ registered /\ \A i \in DOMAIN last.cbs : last.cbs[i].ans = Decline)
    => /\ last.frame = Unregistered.frame
       /\ last.err = Unregistered.err
       /\ last.pos = Unregistered.pos
       /\ last.skipped = Unregistered.skipped
       /\ last.frameStart = Unregistered.frameStart
       /\ last.closes = Unregistered.closes
       /\ \A i \in DOMAIN last.skipped :
             LET p == last.skipped[i]
                 next == IF i < Len(last.skipped) THEN last.skipped[i + 1]
                         ELSE last.frameStart
             IN  /\ HeaderAt(p)
                 /\ next = BoundaryAfter(p)
                 /\ TypeAt(p).val > 13 => CalledFor(TypeAt(p).val, TypeAt(p).pos)

\* a handler declined an extension frame with a body, which was skipped
C15_Witness ==
    /\ Called
    /\ registered
    /\ Len(last.cbs) >= 1
    /\ \A i \in DOMAIN last.cbs : last.cbs[i].ans = Decline
    /\ Len(last.skipped) >= 1
    /\ TypeAt(last.skipped[1]).val = 32
    /\ LenAt(last.skipped[1]).val >= 1
    /\ last.frameStart = BoundaryAfter(last.skipped[1])

\* the frame at offset p is a CANCEL_PUSH, PUSH_PROMISE or MAX_PUSH_ID frame
\* whose type and length fields are there
PushFrameAt(p) == HeaderAt(p) /\ TypeAt(p).val \in {3, 5, 13}

\* C16: a frame of type 0x3, 0x5 or 0xd that a call comes to is skipped by
\* its declared length and the loop goes on at the next boundary, or, when
\* the stream ends inside its body, the call returns io.EOF at the end of the
\* stream; the handler is not called for it, closeConn is not called, no
\* frame is returned for it and no codec error comes from it.
C16_PushFramesSkipped ==
    Called
    => /\ \A i \in DOMAIN last.skipped :
             PushFrameAt(last.skipped[i])
             => /\ BoundaryAfter(last.skipped[i]) <= Len(stream)
                /\ BoundaryAfter(last.skipped[i])
                      = IF i < Len(last.skipped) THEN last.skipped[i + 1]
                        ELSE last.frameStart
       /\ PushFrameAt(last.frameStart)
          => /\ BoundaryAfter(last.frameStart) > Len(stream)
             /\ last.frame = NilFrame
             /\ last.err = ErrEOF
             /\ last.pos = Len(stream)
             /\ last.closes = << >>
       /\ \A p \in Visited :
             PushFrameAt(p)
             => \A i \in DOMAIN last.cbs : last.cbs[i].at # TypeAt(p).pos

\* a PUSH_PROMISE frame whose one body byte is a stream identifier, as in a
\* GOAWAY frame, was skipped with a handler registered
C16_Witness ==
    /\ Called
    /\ registered
    /\ Len(last.skipped) = 1
    /\ TypeAt(last.skipped[1]).val = 5
    /\ LenAt(last.skipped[1]).val = 1
    /\ last.frameStart = BoundaryAfter(last.skipped[1])
    /\ last.frameStart = Len(stream)

RECURSIVE PairsStop(_, _)
\* the offset in a SETTINGS body right after its last complete pair
PairsStop(buf, bpos) ==
    LET rid  == VarintRead(buf, bpos)
        rval == VarintRead(buf, rid.pos)
    IN  IF bpos >= Len(buf) \/ rid.err # ErrNil \/ rval.err # ErrNil
        THEN bpos
        ELSE PairsStop(buf, rval.pos)

\* the body of the SETTINGS frame the call ended at is made of whole pairs
WholePairs == PairsStop(SubSeq(stream, EndBody + 1, EndBody + EndLen), 0) = EndLen

\* pair k gives 0x8 or 0x33 a value that is not 0 or 1
BadFlag(ps, k) ==
    /\ ps[k].id \in {settingExtendedConnect, settingDatagram}
    /\ ps[k].val \notin {0, 1}

InvalidValueError(id) ==
    IF id = settingExtendedConnect THEN ErrInvalidExtendedConnect
    ELSE ErrInvalidDatagram

\* some pair gives the setting the value 1
SetTo1(ps, id) == \E k \in DOMAIN ps : ps[k].id = id /\ ps[k].val = 1

\* C17 as stated: a SETTINGS body in which a pair gives 0x8 or 0x33 a value
\* other than 0 or 1 is rejected with an invalid-value error; 1 sets the
\* flag, an explicit 0 is accepted and leaves it false.
C17_InvalidValueAlways ==
    SettingsBodyPresent
    => /\ \A k \in DOMAIN EndPairs :
             BadFlag(EndPairs, k)
             => /\ last.err \in {ErrInvalidExtendedConnect, ErrInvalidDatagram}
                /\ last.frame = NilFrame
       /\ last.err = ErrNil
          => /\ last.frame.kind = "Settings"
             /\ last.frame.Datagram = SetTo1(EndPairs, settingDatagram)
             /\ last.frame.ExtendedConnect = SetTo1(EndPairs, settingExtendedConnect)

\* C17 as amended: in a SETTINGS body, the first pair that gives 0x8 or 0x33 a value
\* other than 0 or 1, when no pair up to it repeats an identifier, fails the
\* parse with the invalid-value error of that setting; a body of whole pairs
\* with no repeat and only 0 or 1 for 0x8 and 0x33 is accepted, and in every
\* accepted body a flag is true exactly when its setting is there with 1.
C17_FlagValues ==
    SettingsBodyPresent
    => /\ \A k \in DOMAIN EndPairs :
             (/\ BadFlag(EndPairs, k)
              /\ \A j \in 1 .. (k - 1) : ~BadFlag(EndPairs, j)
              /\ \A j \in 1 .. k : ~Repeats(EndPairs, j))
             => /\ last.err = InvalidValueError(EndPairs[k].id)
                /\ last.frame = NilFrame
       /\ (/\ WholePairs
           /\ ~HasDuplicate(EndPairs)
           /\ \A k \in DOMAIN EndPairs : ~BadFlag(EndPairs, k))
          => last.err = ErrNil
       /\ last.err = ErrNil
          => /\ last.frame.kind = "Settings"
             /\ last.frame.Datagram = SetTo1(EndPairs, settingDatagram)
             /\ last.frame.ExtendedConnect = SetTo1(EndPairs, settingExtendedConnect)
             /\ \A k \in DOMAIN EndPairs : ~BadFlag(EndPairs, k)

\* a body that gives 0x8 the value 0 and 0x33 the value 1 was accepted
C17_Witness ==
    /\ SettingsBodyPresent
    /\ EndPairs = << [id |-> settingExtendedConnect, val |-> 0],
                     [id |-> settingDatagram, val |-> 1] >>
    /\ last.err = ErrNil
    /\ ~last.frame.ExtendedConnect
    /\ last.frame.Datagram

\* C18: a SETTINGS body of the declared length, all there, that ends in a
\* partial pair (an identifier with no value, or a varint cut off by the end
\* of the body) gives no Settings and an error that is not the one returned
\* at a clean end of the stream.
C18_PartialPairFatal ==
    (SettingsBodyPresent /\ ~WholePairs)
    => /\ last.frame = NilFrame
       /\ last.err # ErrNil
       /\ last.err # CleanEnd.err

\* the frame 04 01 08, a SETTINGS body that is the identifier 0x8 with no
\* value, was parsed: no Settings, and the error of a clean end of the stream
C18_Witness ==
    /\ SettingsBodyPresent
    /\ ~WholePairs
    /\ stream = << 4, 1, 8 >>
    /\ last.frame = NilFrame
    /\ last.err = ErrEOF
    /\ last.pos = 3

\* C20: when the handler answers with an error, on a failed read of the type
\* field or on an extension frame, with or without "hijacked", that call of
\* the handler is the last thing ParseNext does: it returns no frame and that
\* error, and the cursor stays where it was when the handler was called;
\* errHijacked is returned only after the answer "hijacked" with a nil error.
C20_HandlerErrorReturned ==
    Called
    => /\ \A i \in DOMAIN last.cbs :
             last.cbs[i].ans.err # ErrNil
             => /\ i = Len(last.cbs)
                /\ last.err = last.cbs[i].ans.err
                /\ last.frame = NilFrame
                /\ last.pos = last.cbs[i].at
                /\ last.closes = << >>
       /\ last.err = errHijacked
          => /\ last.cbs # << >>
             /\ last.cbs[Len(last.cbs)].ans = [hijacked |-> TRUE, err |-> ErrNil]
             /\ last.pos = last.cbs[Len(last.cbs)].at

\* the handler answered an extension frame with "hijacked" and an error;
\* the error came back and the rest of the stream was left unread
C20_Witness ==
    /\ Called
    /\ last.err = ErrHandler
    /\ Len(stream) > last.pos
    /\ last.cbs[Len(last.cbs)].ans = [hijacked |-> TRUE, err |-> ErrHandler]
    /\ last.cbs[Len(last.cbs)].t = 32
    /\ last.cbs[Len(last.cbs)].err = ErrNil

\* C19: followed one iteration of the loop at a time, every call of
\* ParseNext that has started returns; every iteration that does not return
\* moves the cursor on by at least the two bytes of a type and a length
\* field, and the call returns what ParseNext returns from where it started.
C19_Terminates ==
    /\ run.active ~> ~run.active
    /\ [][(run.active /\ run'.active) => run'.pos >= run.pos + 2]_vars
    /\ [][(run.active /\ ~run'.active)
          => LET r == ParseNext(stream, run.start, run.h)
             IN  /\ last'.frame = r.frame
                 /\ last'.err = r.err
                 /\ last'.pos = r.pos
                 /\ last'.cbs = r.cbs
                 /\ last'.skipped = r.skipped
                 /\ last'.frameStart = r.frameStart]_vars

\* a call has gone round the loop over two unknown frames of length zero
\* and has returned at the end of the stream
C19_Witness ==
    /\ Called
    /\ ~run.active
    /\ last.skipped = << 0, 2 >>
    /\ TypeAt(0).val = 32 /\ LenAt(0).val = 0
    /\ TypeAt(2).val = 32 /\ LenAt(2).val = 0
    /\ last.frameStart = 4
    /\ last.err = ErrEOF

=============================================================================
